---- MODULE Spec2Model ----
(***************************************************************************)
(* State-machine model of streamlit_app.py: the WWTP validation dashboard. *)
(*                                                                         *)
(* One script run ("pass") of main() is started by a reviewer interaction  *)
(* (a sidebar change, or a click on Save Row Changes / Rejected /          *)
(* Accepted).  The run is split only where the script blocks on the remote *)
(* store (requests.get, requests.put), because an external writer can      *)
(* change the remote copy while the script waits.                          *)
(*                                                                         *)
(* Numbers are fixed-point, in hundredths (30.03 is 3003); distances are   *)
(* in metres.  A DataFrame cell is a record [k, n, s]: a float, a string   *)
(* or NaN.  A CSV cell is a plain string.  Index labels are the row        *)
(* positions, counted from 1 here and from 0 in pandas; row ranges keep    *)
(* the source's 0-based, end-exclusive form.                               *)
(*                                                                         *)
(* Library behaviour relied on:                                            *)
(*  - a click reruns the script with the sidebar widgets as they stand     *)
(*    and exactly one button reporting True;                               *)
(*  - an uncaught exception ends the run and keeps the session state;      *)
(*  - assigning a text to a cell of a float column stores the text (the    *)
(*    column becomes object-typed) until the column is re-coerced;         *)
(*  - DataFrame.dropna(subset=...) raises KeyError for a missing column;   *)
(*  - the contents API answers 200 with the blob sha or 404 on GET, and    *)
(*    accepts a PUT only if it names the sha of the blob it replaces.      *)
(***************************************************************************)
EXTENDS Integers, Sequences, FiniteSets, TLC

VARIABLES
    df,            \* st.session_state.df: sequence of rows (index label = position)
    local_csv,     \* mena_validation_results_dataset.csv on local disk
    remote,        \* the file in the GitHub repository: [exists, content]
    pc,            \* where the script is: "ready", "get", "put", "crashed"
    widgets,       \* sidebar widget values of the current run
    trigger,       \* the widget whose click started the current run
    view,          \* filtered_data / filtered_data_val of the current run
    markers,       \* per rendered row: the folium map and its blue markers
    sha,           \* commit_file_to_github: version token read by the GET
    content_bytes, \* save_dataframe: bytes read back from the local file
    notices,       \* st.success / st.error messages of the current run
    exception,     \* uncaught exception that ended the current run
    committed,     \* a button handler ran in the current run
    raced,         \* the remote copy changed while this run's PUT was pending
    sync_failed,   \* some persist of this session failed remotely
    nActions,      \* committing reviewer clicks so far
    nExternal      \* external writes so far

vars == <<df, local_csv, remote, pc, widgets, trigger, view, markers, sha,
          content_bytes, notices, exception, committed, raced, sync_failed,
          nActions, nExternal>>

\* ------------------------------------------------------------------ bounds
MaxActions == 2
MaxExternal == 1

\* ------------------------------------------------------------------ cells
Num(n) == [k |-> "num", n |-> n, s |-> ""]
Str(s) == [k |-> "str", n |-> 0, s |-> s]
NaN == [k |-> "nan", n |-> 0, s |-> ""]

notnull(c) == c.k # "nan"

numeric_cols == <<"circular_tank_count", "rectangular_tank_count",
                  "desgin_capacity_m3_yr", "latitude", "longitude">>

multiselect_cols == {"technology_classification", "technology_type"}

Columns == <<"country", "is_wwtp", "source", "latitude", "longitude",
             "circular_tank_count", "rectangular_tank_count",
             "desgin_capacity_m3_yr", "technology_classification",
             "technology_type", "Validation_Status">>

Range(seq) == {seq[i] : i \in DOMAIN seq}

\* Texts that pandas parses as a float, with the float (in hundredths).
NumberTexts == {"2", "2.0", "30.0", "30.03", "30.1", "31.0", "31.04", "391.0"}

ParseFloat(t) ==
    CASE t \in {"2", "2.0"} -> 200
      [] t = "30.0" -> 3000
      [] t = "30.03" -> 3003
      [] t = "30.1" -> 3010
      [] t = "31.0" -> 3100
      [] t = "31.04" -> 3104
      [] t = "391.0" -> 39100

\* str(x) / CSV text of a float.
FloatText(n) ==
    CASE n = 200 -> "2.0"
      [] n = 3000 -> "30.0"
      [] n = 3003 -> "30.03"
      [] n = 3010 -> "30.1"
      [] n = 3100 -> "31.0"
      [] n = 3104 -> "31.04"
      [] n = 39100 -> "391.0"

\* pd.to_numeric(..., errors="coerce") on one cell.
to_numeric(c) ==
    CASE c.k = "num" -> c
      [] c.k = "nan" -> NaN
      [] c.k = "str" -> IF c.s \in NumberTexts THEN Num(ParseFloat(c.s)) ELSE NaN

\* str(row[col]) if pd.notnull(row[col]) else "" -- also what to_csv writes.
CellText(c) ==
    CASE c.k = "num" -> FloatText(c.n)
      [] c.k = "nan" -> ""
      [] c.k = "str" -> c.s

\* pd.read_csv on one cell of a non-numeric column: the empty field is NaN.
read_cell(t) == IF t = "" THEN NaN ELSE Str(t)

\* ------------------------------------------------------------------ CSV
\* A CSV file: its header (set of column names) and its rows of texts.
to_csv(table) ==
    [columns |-> Range(Columns),
     rows |-> [i \in DOMAIN table |->
                 [c \in Range(Columns) |-> CellText(table[i][c])]]]

\* download_and_load_data, from the local file on.
load(csv) ==
    [i \in DOMAIN csv.rows |->
        [c \in Range(Columns) |->
            IF c \notin csv.columns
              THEN Str("")
              ELSE IF c \in Range(numeric_cols)
                     THEN to_numeric(read_cell(csv.rows[i][c]))
                     ELSE read_cell(csv.rows[i][c])]]

\* ------------------------------------------------------------------ geo
Radius5km == 5000

\* Great-circle length in metres for the latitudes and longitude deltas of
\* the model's coordinate grid, evaluated with the source's formula
\*   R * 2 * asin(sqrt(sin(d_lat/2)^2 + cos(lat1) * cos(lat2) * sin(d_lon/2)^2)).
\* sin(d_lon/2)^2 is 0 for a delta of 0 or +-360 degrees, and the same for
\* +-0.04 and +-359.96 degrees.
LonDeltaClass(d_lon) ==
    CASE d_lon \in {0, 36000, -36000} -> 1
      [] d_lon \in {4, -4, 35996, -35996} -> 2

GreatCircle(lat1, lat2, d_lon) ==
    LET lo == IF lat1 <= lat2 THEN lat1 ELSE lat2
        hi == IF lat1 <= lat2 THEN lat2 ELSE lat1
        row == CASE lo = 3000 /\ hi = 3000 -> <<0, 3852>>
                 [] lo = 3000 /\ hi = 3003 -> <<3336, 5095>>
                 [] lo = 3000 /\ hi = 3010 -> <<11119, 11767>>
                 [] lo = 3003 /\ hi = 3003 -> <<0, 3851>>
                 [] lo = 3003 /\ hi = 3010 -> <<7784, 8683>>
                 [] lo = 3010 /\ hi = 3010 -> <<0, 3848>>
    IN row[LonDeltaClass(d_lon)]

haversine_distance(lat1, lon1, lat2, lon2) ==
    LET d_lon == lon2 - lon1
    IN GreatCircle(lat1, lat2, d_lon)

\* ------------------------------------------------------------------ frames
\* A DataFrame slice keeps the index labels of its rows.
Indexed(table) == [i \in DOMAIN table |-> [idx |-> i, row |-> table[i]]]

Frame(cols, rows) == [columns |-> cols, rows |-> rows]

\* pd.DataFrame(): no columns, no rows.
EmptyFrame == Frame({}, <<>>)

\* df[col].dropna().unique(): the option list of a sidebar multiselect.
unique_vals(table, col) ==
    {table[i][col].s : i \in {j \in DOMAIN table : notnull(table[j][col])}}

isin(c, allowed) == c.k = "str" /\ c.s \in allowed

\* Faulty variant: the source predicate is left out.
apply_filters_no_source(table, countries, orbis, sources) ==
    LET keep(r) == /\ isin(r.row["country"], countries)
                   /\ isin(r.row["is_wwtp"], orbis)
    IN Frame(Range(Columns), SelectSeq(Indexed(table), keep))

\* lines 119-127
apply_filters(table, selected_countries, selected_orbis, selected_sources) ==
    LET keep(r) == /\ isin(r.row["country"], selected_countries)
                   /\ isin(r.row["is_wwtp"], selected_orbis)
                   /\ isin(r.row["source"], selected_sources)
    IN Frame(Range(Columns), SelectSeq(Indexed(table), keep))

\* frame.iloc[start:end]
iloc(frame, start, end) ==
    LET n == Len(frame.rows)
        e == IF end < n THEN end ELSE n
    IN Frame(frame.columns,
             IF start >= e THEN <<>> ELSE SubSeq(frame.rows, start + 1, e))

\* main, lines 393-397.
paginate(filtered_data, start_idx, end_idx) ==
    IF start_idx >= end_idx
      THEN EmptyFrame
      ELSE iloc(filtered_data, start_idx, end_idx)

\* ------------------------------------------------------------------ maps
\* frame.dropna(subset=["latitude", "longitude"]) on the rows.
dropna_rows(rows) ==
    LET located(r) == notnull(r.row["latitude"]) /\ notnull(r.row["longitude"])
    IN SelectSeq(rows, located)

\* lines 191-198: the focal row has a mappable position.
focal_valid(row) ==
    /\ row["latitude"].k = "num"
    /\ row["longitude"].k = "num"
    /\ -9000 <= row["latitude"].n /\ row["latitude"].n <= 9000
    /\ -18000 <= row["longitude"].n /\ row["longitude"].n <= 18000

\* lines 233-245: index labels of the blue markers, in table order.
neighbor_markers(table, idx, row) ==
    LET df_all == dropna_rows(Indexed(table))
        near(r2) ==
            /\ notnull(r2.row["latitude"]) /\ notnull(r2.row["longitude"])
            /\ haversine_distance(row["latitude"].n, row["longitude"].n,
                                  r2.row["latitude"].n, r2.row["longitude"].n)
                 <= Radius5km
            /\ r2.idx # idx
        hits == SelectSeq(df_all, near)
    IN [i \in DOMAIN hits |-> hits[i].idx]

NoMap == [shown |-> "nomap", near |-> <<>>]
Unrendered == [shown |-> "none", near |-> <<>>]

\* lines 198-251 for one row of the slice.
render_map(table, r) ==
    IF focal_valid(r.row)
      THEN [shown |-> "map", near |-> neighbor_markers(table, r.idx, r.row)]
      ELSE NoMap

\* The maps of rows from..to of the slice, drawn against the session table.
render_rows(table, rows, from, to, old) ==
    [i \in DOMAIN old |->
        IF \E p \in from..to : p \in DOMAIN rows /\ rows[p].idx = i
          THEN render_map(table, rows[CHOOSE p \in from..to :
                                        p \in DOMAIN rows /\ rows[p].idx = i])
          ELSE old[i]]

\* ------------------------------------------------------------------ handlers
RECURSIVE join(_)
\* ",".join(selected_options)
join(seq) ==
    IF seq = <<>> THEN ""
    ELSE IF Len(seq) = 1 THEN seq[1]
    ELSE seq[1] \o "," \o join(Tail(seq))

NoPicks == [c \in multiselect_cols |-> <<>>]

\* The widget that started a run.  For a form: the one text input the
\* reviewer retyped (col, val; col = "" when none) and the multiselect picks.
NoTrigger == [kind |-> "none", idx |-> 0, col |-> "", val |-> "", picks |-> NoPicks]

\* lines 258-278: what the form hands to the submit handler.
updated_values(row, t) ==
    [c \in Range(Columns) |->
        IF c \in multiselect_cols
          THEN join(t.picks[c])
          ELSE IF c = t.col THEN t.val ELSE CellText(row[c])]

\* Faulty variant: the re-coercion is left out.
coerce_nothing(table) == table

\* lines 291-294: every numeric column of the whole table is re-coerced.
coerce_numeric_cols(table) ==
    [i \in DOMAIN table |->
        [c \in Range(Columns) |->
            IF c \in Range(numeric_cols) THEN to_numeric(table[i][c])
                                         ELSE table[i][c]]]

\* lines 281-294
apply_edit(table, idx, values) ==
    coerce_numeric_cols(
        [table EXCEPT ![idx] = [c \in Range(Columns) |-> Str(values[c])]])

\* Faulty variant: the status is assigned to the whole column.
set_status_column(table, idx, status) ==
    [i \in DOMAIN table |->
        [table[i] EXCEPT !["Validation_Status"] = Str(status)]]

\* lines 305, 311
set_status(table, idx, status) ==
    [table EXCEPT ![idx]["Validation_Status"] = Str(status)]

\* The handler of the clicked widget, applied to the session table.
handler(table, t, row) ==
    CASE t.kind = "submit" -> apply_edit(table, t.idx, updated_values(row, t))
      [] t.kind = "reject" -> set_status(table, t.idx, "Rejected")
      [] t.kind = "accept" -> set_status(table, t.idx, "Accepted")

\* Faulty variant: the file is opened for appending.
write_local_append(old_file, table) ==
    Frame(Range(Columns), old_file.rows \o to_csv(table).rows)

\* line 111: df.to_csv(local_csv, index=False) replaces the file.
write_local(old_file, table) == to_csv(table)

\* Faulty variant: the bytes are read before the file is rewritten.
read_back_stale(old_file, new_file) == old_file

\* lines 115-116: the bytes to commit are read back from the file just written.
read_back(old_file, new_file) == new_file

\* ------------------------------------------------------------------ remote
\* GitHub names a blob by a hash of its content; base64 is undone on receipt.
blob_sha(content) == <<"sha", content>>
None == <<"none">>
b64encode(bytes) == <<"b64", bytes>>
b64decode(text) == text[2]

Absent == [exists |-> FALSE, content |-> Frame({}, <<>>)]
Present(content) == [exists |-> TRUE, content |-> content]

\* The contents API accepts a PUT only when the request names the blob it
\* replaces: the current sha for an update, none for a creation.
put_accepted(store, token) ==
    IF store.exists THEN token = blob_sha(store.content) ELSE token = None

\* ------------------------------------------------------------------ a run
position(rows, idx) ==
    IF \E p \in DOMAIN rows : rows[p].idx = idx
      THEN CHOOSE p \in DOMAIN rows : rows[p].idx = idx
      ELSE 0

\* display_general_insights and display_locations, lines 399-401 of main.
display_tail(filtered_data_val) ==
    IF {"latitude", "longitude"} \subseteq filtered_data_val.columns
      THEN [pc |-> "ready", exception |-> "None",
            notes |-> {"insights",
                       IF dropna_rows(filtered_data_val.rows) # <<>>
                         THEN "st.map" ELSE "no_coords"}]
      ELSE [pc |-> "crashed", exception |-> "KeyError", notes |-> {"insights"}]

AllUnrendered(table) == [i \in DOMAIN table |-> Unrendered]

\* The script from line 300 of the clicked row to the end of main: the
\* success message, the rows after the clicked one, insights, locations.
FinishRun(notes) ==
    LET rows == view.filtered_data_val.rows
        pos == position(rows, trigger.idx)
        tail == display_tail(view.filtered_data_val)
    IN /\ markers' = render_rows(df, rows, pos + 1, Len(rows), markers)
       /\ notices' = notices \cup notes \cup {"row_done"} \cup tail.notes
       /\ pc' = tail.pc
       /\ exception' = tail.exception

\* main from the top to its end, or to the first remote call of a handler.
StartRun(w, t) ==
    LET filtered_data == apply_filters(df, w.selected_countries,
                                       w.selected_orbis, w.selected_sources)
        fdv == paginate(filtered_data, w.start_idx, w.end_idx)
        pos == IF t.kind = "none" THEN 0 ELSE position(fdv.rows, t.idx)
        range_note == IF w.start_idx >= w.end_idx THEN {"range_error"} ELSE {}
        tail == display_tail(fdv)
    IN /\ widgets' = w
       /\ trigger' = t
       /\ view' = [filtered_data |-> filtered_data, filtered_data_val |-> fdv]
       /\ sha' = None
       /\ raced' = FALSE
       /\ IF pos = 0
            THEN /\ markers' = render_rows(df, fdv.rows, 1, Len(fdv.rows),
                                           AllUnrendered(df))
                 /\ notices' = range_note \cup tail.notes
                 /\ pc' = tail.pc
                 /\ exception' = tail.exception
                 /\ committed' = FALSE
                 /\ UNCHANGED <<df, local_csv, content_bytes>>
            ELSE /\ markers' = render_rows(df, fdv.rows, 1, pos, AllUnrendered(df))
                 /\ df' = handler(df, t, fdv.rows[pos].row)
                 /\ local_csv' = write_local(local_csv, df')
                 /\ content_bytes' = read_back(local_csv, local_csv')
                 /\ notices' = range_note \cup {"local_ok"}
                 /\ pc' = "get"
                 /\ exception' = "None"
                 /\ committed' = TRUE

\* ------------------------------------------------------------------ inputs
\* Rows as they stand in the source spreadsheet export.
CsvRow(country, is_wwtp, source, lat, lon, circ, rect, cap, tclass, ttype) ==
    [country |-> country, is_wwtp |-> is_wwtp, source |-> source,
     latitude |-> lat, longitude |-> lon, circular_tank_count |-> circ,
     rectangular_tank_count |-> rect, desgin_capacity_m3_yr |-> cap,
     technology_classification |-> tclass, technology_type |-> ttype]

WithStatus(row, status) ==
    [c \in Range(Columns) |->
        IF c = "Validation_Status" THEN status ELSE row[c]]

SourceNoStatus ==
    Frame(Range(Columns) \ {"Validation_Status"},
          << CsvRow("EG", "yes", "osm", "30.0", "31.0", "2", "", "many",
                    "secondary", "MBR"),
             CsvRow("JO", "no", "gov", "30.03", "31.0", "", "2.0", "",
                    "", "") >>)

SourceWithStatus ==
    Frame(Range(Columns),
          << WithStatus(CsvRow("EG", "yes", "osm", "30.0", "391.0", "2.0", "",
                               "", "secondary", "MBR"), "Accepted") >>)

Sources == {SourceNoStatus, SourceWithStatus}

\* What an external writer (another session, an ingestion job) commits.
ExternalContent ==
    Frame(Range(Columns),
          << WithStatus(CsvRow("LB", "yes", "gov", "30.1", "31.0", "", "", "",
                               "", ""), "Rejected") >>)

\* lines 366-391: each multiselect holds a subset of its options, each
\* row-index input a value in 0..max_index.
SidebarInputs(table, countries, orbis, sources) ==
    {w \in [selected_countries : countries, selected_orbis : orbis,
            selected_sources : sources,
            start_idx : 0..Len(table), end_idx : 0..Len(table)] :
        LET max_index == Len(apply_filters(table, w.selected_countries,
                                 w.selected_orbis, w.selected_sources).rows)
        IN w.start_idx <= max_index /\ w.end_idx <= max_index}

\* lines 365-391: every option selected, rows 0 to min(10, max_index).
DefaultWidgets(table) ==
    LET all == apply_filters(table, unique_vals(table, "country"),
                             unique_vals(table, "is_wwtp"),
                             unique_vals(table, "source"))
        n == Len(all.rows)
    IN [selected_countries |-> unique_vals(table, "country"),
        selected_orbis |-> unique_vals(table, "is_wwtp"),
        selected_sources |-> unique_vals(table, "source"),
        start_idx |-> 0, end_idx |-> IF n < 10 THEN n ELSE 10]

\* What a reviewer may do to a form before submitting it: nothing, retype
\* one text input, or pick one option of one multiselect.
Retyped ==
    { <<"latitude", "30.03">>, <<"circular_tank_count", "many">>,
      <<"Validation_Status", "Maybe">> }

Picks(table) ==
    {[c \in multiselect_cols |-> IF c = "technology_type" THEN <<o>> ELSE <<>>] :
        o \in unique_vals(table, "technology_type")}

Triggers(table, rendered) ==
    {[kind |-> "submit", idx |-> i, col |-> "", val |-> "", picks |-> NoPicks] :
        i \in rendered}
    \cup
    {[kind |-> "submit", idx |-> i, col |-> r[1], val |-> r[2], picks |-> NoPicks] :
        i \in rendered, r \in Retyped}
    \cup
    {[kind |-> "submit", idx |-> i, col |-> "", val |-> "", picks |-> p] :
        i \in rendered, p \in Picks(table)}
    \cup
    {[kind |-> k, idx |-> i, col |-> "", val |-> "", picks |-> NoPicks] :
        k \in {"reject", "accept"}, i \in rendered}

Rendered == {i \in DOMAIN markers : markers[i].shown # "none"}

\* ------------------------------------------------------------------ actions
Idle == pc \in {"ready", "crashed"}

\* The reviewer changes a sidebar widget: the script reruns, nothing clicked.
SidebarChange ==
    /\ Idle
    /\ \E w \in SidebarInputs(df, {unique_vals(df, "country")},
                              {unique_vals(df, "is_wwtp")},
                              {unique_vals(df, "source")}) :
          /\ StartRun(w, NoTrigger)
    /\ UNCHANGED <<remote, sync_failed, nActions, nExternal>>

\* The reviewer clicks Save Row Changes, Rejected or Accepted on a row on screen.
Click ==
    /\ Idle
    /\ nActions < MaxActions
    /\ \E t \in Triggers(df, Rendered) : StartRun(widgets, t)
    /\ nActions' = nActions + 1
    /\ UNCHANGED <<remote, sync_failed, nExternal>>

\* lines 30-34: the GET answers 200 with the sha, or 404.
GetOk ==
    /\ pc = "get"
    /\ sha' = IF remote.exists THEN blob_sha(remote.content) ELSE None
    /\ pc' = "put"
    /\ UNCHANGED <<df, local_csv, remote, widgets, trigger, view, markers,
                   content_bytes, notices, exception, committed, raced,
                   sync_failed, nActions, nExternal>>

\* lines 35-37: any other status: report and return.
GetError ==
    /\ pc = "get"
    /\ FinishRun({"check_failed"})
    /\ sync_failed' = TRUE
    /\ UNCHANGED <<df, local_csv, remote, widgets, trigger, view, sha,
                   content_bytes, committed, raced, nActions, nExternal>>

\* requests.get raises (no connection): the exception ends the run.
GetRaises ==
    /\ pc = "get"
    /\ pc' = "crashed"
    /\ exception' = "ConnectionError"
    /\ sync_failed' = TRUE
    /\ UNCHANGED <<df, local_csv, remote, widgets, trigger, view, markers, sha,
                   content_bytes, notices, committed, raced, nActions, nExternal>>

\* lines 39-51: the PUT is accepted (200 update, 201 creation).
PutOk ==
    /\ pc = "put"
    /\ put_accepted(remote, sha)
    /\ remote' = Present(b64decode(b64encode(content_bytes)))
    /\ FinishRun({"commit_ok"})
    /\ UNCHANGED <<df, local_csv, widgets, trigger, view, sha, content_bytes,
                   committed, raced, sync_failed, nActions, nExternal>>

\* lines 52-53: the PUT is refused (409 on a stale sha, 422, 401, 5xx).
PutError ==
    /\ pc = "put"
    /\ FinishRun({"commit_failed"})
    /\ sync_failed' = TRUE
    /\ UNCHANGED <<df, local_csv, remote, widgets, trigger, view, sha,
                   content_bytes, committed, raced, nActions, nExternal>>

\* requests.put raises.
PutRaises ==
    /\ pc = "put"
    /\ pc' = "crashed"
    /\ exception' = "ConnectionError"
    /\ sync_failed' = TRUE
    /\ UNCHANGED <<df, local_csv, remote, widgets, trigger, view, markers, sha,
                   content_bytes, notices, committed, raced, nActions, nExternal>>

\* Another writer commits to the same path of the repository.
ExternalWrite ==
    /\ nExternal < MaxExternal
    /\ remote # Present(ExternalContent)
    /\ remote' = Present(ExternalContent)
    /\ raced' = (raced \/ pc = "put")
    /\ nExternal' = nExternal + 1
    /\ UNCHANGED <<df, local_csv, pc, widgets, trigger, view, markers, sha,
                   content_bytes, notices, exception, committed, sync_failed,
                   nActions>>

\* ------------------------------------------------------------------ spec
\* The session after its first run: the table loaded from the local file,
\* every sidebar option selected, the first page on screen.
FirstRun(source, store) ==
    LET table == load(source)
        w == DefaultWidgets(table)
        filtered_data == apply_filters(table, w.selected_countries,
                                       w.selected_orbis, w.selected_sources)
        fdv == paginate(filtered_data, w.start_idx, w.end_idx)
        tail == display_tail(fdv)
    IN /\ df = table
       /\ local_csv = source
       /\ remote = store
       /\ widgets = w
       /\ trigger = NoTrigger
       /\ view = [filtered_data |-> filtered_data, filtered_data_val |-> fdv]
       /\ markers = render_rows(table, fdv.rows, 1, Len(fdv.rows),
                                AllUnrendered(table))
       /\ sha = None
       /\ content_bytes = source
       /\ notices = tail.notes
       /\ pc = tail.pc
       /\ exception = tail.exception
       /\ committed = FALSE
       /\ raced = FALSE
       /\ sync_failed = FALSE
       /\ nActions = 0
       /\ nExternal = 0

Init == \E source \in Sources : \E store \in {Absent, Present(source)} :
            FirstRun(source, store)

Next ==
    \/ SidebarChange
    \/ Click
    \/ GetOk
    \/ GetError
    \/ GetRaises
    \/ PutOk
    \/ PutError
    \/ PutRaises
    \/ ExternalWrite

Spec == Init /\ [][Next]_vars

\* ------------------------------------------------------------------ browsing
\* A session that only browses: one table with near, far, unlocated and
\* out-of-range rows, every filter subset and every row range.
BrowseSource ==
    Frame(Range(Columns) \ {"Validation_Status"},
          << CsvRow("EG", "yes", "osm", "30.0", "31.0", "", "", "", "", ""),
             CsvRow("JO", "yes", "osm", "30.03", "31.0", "", "", "", "", ""),
             CsvRow("EG", "no", "gov", "30.0", "391.0", "", "", "", "", ""),
             CsvRow("", "yes", "gov", "", "", "", "", "", "", ""),
             CsvRow("JO", "no", "osm", "30.1", "31.0", "", "", "", "", ""),
             CsvRow("EG", "yes", "osm", "30.03", "31.04", "", "", "", "", "") >>)

Browse ==
    /\ Idle
    /\ \E w \in SidebarInputs(df, SUBSET unique_vals(df, "country"),
                              SUBSET unique_vals(df, "is_wwtp"),
                              SUBSET unique_vals(df, "source")) :
          StartRun(w, NoTrigger)
    /\ UNCHANGED <<remote, sync_failed, nActions, nExternal>>

InitBrowse == FirstRun(BrowseSource, Present(BrowseSource))

NextBrowse == Browse

SpecBrowse == InitBrowse /\ [][NextBrowse]_vars

\* ------------------------------------------------------------------ claims
\* The file holds exactly the table: the header, one line per row, each
\* field the text of the cell.
HoldsTable(csv, table) ==
    /\ csv.columns = Range(Columns)
    /\ DOMAIN csv.rows = DOMAIN table
    /\ \A i \in DOMAIN table : \A c \in Range(Columns) :
          csv.rows[i][c] = CellText(table[i][c])

StatusOf(row) == row["Validation_Status"]

\* C1: once a committing action (Save Row Changes, Accepted, Rejected) has
\* run its handler, and whatever the remote calls answer afterwards, the
\* local file holds the full current table including that action's change.
C1_LocalWriteStands == committed => HoldsTable(local_csv, df)

C1_Witness ==
    /\ committed
    /\ trigger.kind = "submit"
    /\ exception = "ConnectionError"
    /\ ~remote.exists
    /\ local_csv # SourceNoStatus /\ local_csv # SourceWithStatus
    /\ HoldsTable(local_csv, df)

\* C2 (as claimed): when an external writer changes the remote copy between
\* a persist's GET and its PUT, the answered PUT still leaves the remote
\* copy equal to the session's table, and the local write is complete.
C2_ConflictLastWriterWins ==
    [][(pc = "put" /\ raced /\ pc' = "ready")
          => /\ remote'.exists
             /\ HoldsTable(remote'.content, df')
             /\ HoldsTable(local_csv', df')]_vars

\* C3: a persist whose GET returns a token or 404 and whose PUT succeeds
\* leaves the remote copy equal to the full current table, whatever earlier
\* persists failed to deliver.
C3_SuccessfulPersistSyncsAll ==
    [][(pc = "put" /\ "commit_ok" \in notices')
          => remote'.exists /\ HoldsTable(remote'.content, df')]_vars

C3_Witness ==
    /\ sync_failed
    /\ nActions = 2
    /\ pc = "ready"
    /\ "commit_ok" \in notices
    /\ sha = None
    /\ remote.exists
    /\ HoldsTable(remote.content, df)

\* C4 (as claimed): every record's status is Unreviewed (empty), Accepted or
\* Rejected in every reachable state, and a table loaded from a source with
\* no status column is all Unreviewed.
C4_StatusIsEnum ==
    /\ \A i \in DOMAIN df :
          \/ StatusOf(df[i]) \in {NaN, Str(""), Str("Accepted"), Str("Rejected")}
    /\ (nActions = 0 /\ "Validation_Status" \notin local_csv.columns)
          => \A i \in DOMAIN df : StatusOf(df[i]) = Str("")

\* C5 (as claimed): with start >= end the selection is empty and the run
\* that consumes it ends without an exception.
C5_EmptyRangeRunsThrough ==
    (widgets.start_idx >= widgets.end_idx)
        => /\ view.filtered_data_val.rows = <<>>
           /\ exception = "None"
           /\ pc # "crashed"

\* C6: with start < end the selection is the records at positions
\* [start, min(end, filteredLength)) of the filtered sequence: the records
\* whose country, is_wwtp and source are each in the allowed set, in table
\* order.
C6_SelectIsRangeOfFiltered ==
    (widgets.start_idx < widgets.end_idx) =>
        LET passes(i) ==
                /\ df[i]["country"].k = "str"
                /\ df[i]["country"].s \in widgets.selected_countries
                /\ df[i]["is_wwtp"].k = "str"
                /\ df[i]["is_wwtp"].s \in widgets.selected_orbis
                /\ df[i]["source"].k = "str"
                /\ df[i]["source"].s \in widgets.selected_sources
            match == {i \in DOMAIN df : passes(i)}
            rank(i) == Cardinality({j \in match : j < i})
            want == {i \in match : /\ widgets.start_idx <= rank(i)
                                   /\ rank(i) < widgets.end_idx}
            rows == view.filtered_data_val.rows
        IN /\ {rows[p].idx : p \in DOMAIN rows} = want
           /\ \A p, q \in DOMAIN rows : p < q => rows[p].idx < rows[q].idx
           /\ \A p \in DOMAIN rows : rows[p].row = df[rows[p].idx]

\* The range picks the second record of the filtered sequence, which is the
\* third of the table.
C6_Witness ==
    /\ widgets.selected_countries = {"EG"}
    /\ widgets.selected_sources = {"osm", "gov"}
    /\ widgets.start_idx = 1
    /\ widgets.end_idx = 2
    /\ Len(view.filtered_data_val.rows) = 1
    /\ view.filtered_data_val.rows[1].idx = 3

\* C7 (as claimed): the blue markers of a mapped focal record are exactly
\* the other records with a present and valid latitude and longitude within
\* 5 km of it, in table order.
C7_NeighborsExact ==
    \A i \in DOMAIN df :
        markers[i].shown = "map" =>
            LET near == markers[i].near
                want == {j \in DOMAIN df :
                            /\ j # i
                            /\ focal_valid(df[j])
                            /\ haversine_distance(
                                   df[i]["latitude"].n, df[i]["longitude"].n,
                                   df[j]["latitude"].n, df[j]["longitude"].n)
                                 <= Radius5km}
            IN /\ Range(near) = want
               /\ \A p, q \in DOMAIN near : p < q => near[p] < near[q]

\* C8: after an edit submission the record holds the submitted value of
\* every field; a numeric field holds the parsed number, or NaN when the
\* text does not parse, never the text; the submission raises nothing of
\* its own.
C8_EditStored ==
    (committed /\ trigger.kind = "submit") =>
        LET rows == view.filtered_data_val.rows
            row == rows[position(rows, trigger.idx)].row
            submitted == updated_values(row, trigger)
        IN /\ \A c \in Range(Columns) :
                 LET cell == df[trigger.idx][c]
                 IN IF c \in Range(numeric_cols)
                      THEN IF submitted[c] \in NumberTexts
                             THEN cell = Num(ParseFloat(submitted[c]))
                             ELSE cell = NaN
                      ELSE cell = Str(submitted[c])
           /\ exception \in {"None", "ConnectionError"}

C8_Witness ==
    /\ committed
    /\ trigger.kind = "submit"
    /\ trigger.col = "circular_tank_count"
    /\ trigger.val = "many"
    /\ view.filtered_data_val.rows[position(view.filtered_data_val.rows,
                                            trigger.idx)].row["circular_tank_count"]
         = Num(200)
    /\ df[trigger.idx]["circular_tank_count"] = NaN

\* C9 (as claimed): after Accept or Reject has run on a record (status set,
\* then persisted), no later step of the review of the same selection
\* changes that record's status.
C9_DecidedIsTerminal ==
    [][(committed /\ trigger.kind \in {"accept", "reject"}
                  /\ "commit_ok" \in notices)
          => StatusOf(df'[trigger.idx]) = StatusOf(df[trigger.idx])]_vars

\* C9 (amended): a record's status changes only in the step in which the
\* handler of a widget clicked on that very record runs: never later in
\* that script run, and never without a reviewer action.
C9_StatusChangesOnlyByClick ==
    [][\A i \in DOMAIN df :
          StatusOf(df'[i]) # StatusOf(df[i])
             => /\ pc \in {"ready", "crashed"}
                /\ committed'
                /\ trigger'.kind \in {"submit", "reject", "accept"}
                /\ trigger'.idx = i]_vars

\* A record accepted earlier in the session (the accepted status reached
\* the remote copy) is rejected by a later click.
C9_Witness ==
    /\ committed
    /\ trigger.kind = "reject"
    /\ nExternal = 0
    /\ remote.exists
    /\ remote.content # SourceWithStatus
    /\ "Validation_Status" \in remote.content.columns
    /\ remote.content.rows[trigger.idx]["Validation_Status"] = "Accepted"
    /\ StatusOf(df[trigger.idx]) = Str("Rejected")

\* C10 (as claimed): submitting a form in which nothing was retyped or
\* picked leaves every field of every record as it reads.
C10_UntouchedSubmitChangesNothing ==
    [][(/\ pc \in {"ready", "crashed"}
        /\ committed'
        /\ trigger'.kind = "submit"
        /\ trigger'.col = ""
        /\ trigger'.picks = NoPicks)
          => \A i \in DOMAIN df : \A c \in Range(Columns) :
                 CellText(df'[i][c]) = CellText(df[i][c])]_vars

====
